---- MODULE Spec2Model ----
(***************************************************************************)
(* Marine route optimisation: app.py.                                      *)
(*                                                                         *)
(* The module models the graph built from the GeoJSON polylines, the port  *)
(* registry, the nearest-node resolver, the three path engines and the two *)
(* request handlers index() and analysis().                                *)
(*                                                                         *)
(* Coordinates are pairs of integers taken from a set of points whose      *)
(* pairwise Euclidean distances are whole numbers, so that                 *)
(* Point(a).distance(Point(b)) is computed exactly.                        *)
(***************************************************************************)
EXTENDS Integers, Sequences, FiniteSets, TLC

VARIABLES gdf, G, pc, performance_metrics, request, response, probe

vars == <<gdf, G, pc, performance_metrics, request, response, probe>>

-----------------------------------------------------------------------------
(* Bounds of the model *)

\* longest polyline (number of coordinates) of the first feature
MaxLen == 4

\* largest elapsed time an engine can measure (integer ticks)
MaxTime == 2

\* resident-set sizes a sample of psutil can return
RssSamples == {40, 41}

\* coordinates of the network: all pairwise distances are integers
Coords == {<<0, 0>>, <<3, 0>>, <<-3, 0>>, <<0, 4>>}

\* coordinates a query can carry: one more point, off the network
QueryCoords == Coords \cup {<<0, -4>>}

-----------------------------------------------------------------------------
(* shapely: Point(a).distance(Point(b)) *)

Isqrt(n) == CHOOSE r \in 0..n : r * r <= n /\ (r + 1) * (r + 1) > n

DistTab ==
  [a \in QueryCoords, b \in QueryCoords |->
     Isqrt((a[1] - b[1]) * (a[1] - b[1]) + (a[2] - b[2]) * (a[2] - b[2]))]

distance(a, b) == DistTab[a, b]

-----------------------------------------------------------------------------
(* Sequence helpers *)

Range(s) == {s[i] : i \in DOMAIN s}

IndexOf(s, x) == CHOOSE i \in DOMAIN s : s[i] = x /\ \A j \in 1..(i - 1) : s[j] # x

-----------------------------------------------------------------------------
(* networkx.Graph: nodes in insertion order; adj[u] the neighbours of u in *)
(* insertion order, each with the edge's weight attribute                  *)

EmptyGraph == [nodes |-> << >>, adj |-> << >>]

HasNeighbor(row, v) == \E i \in DOMAIN row : row[i].to = v

\* adj[u][v] = {"weight": w}: a new key goes last, an old key keeps its place
PutNeighbor(row, v, w) ==
  IF HasNeighbor(row, v)
    THEN [i \in DOMAIN row |-> IF row[i].to = v THEN [to |-> v, weight |-> w] ELSE row[i]]
    ELSE Append(row, [to |-> v, weight |-> w])

add_node(g, u) ==
  IF u \in Range(g.nodes)
    THEN g
    ELSE [nodes |-> Append(g.nodes, u),
          adj   |-> [x \in Range(g.nodes) \cup {u} |-> IF x = u THEN << >> ELSE g.adj[x]]]

add_edge(g, u, v, w) ==
  LET g2 == add_node(add_node(g, u), v)
      a1 == [g2.adj EXCEPT ![u] = PutNeighbor(@, v, w)]
      a2 == [a1 EXCEPT ![v] = PutNeighbor(@, u, w)]
  IN [nodes |-> g2.nodes, adj |-> a2]

RECURSIVE add_polyline_distinct(_, _, _)
\* mutant: a pair of equal coordinates adds no edge
add_polyline_distinct(g, coords, i) ==
  IF i > Len(coords) - 1
    THEN g
    ELSE add_polyline_distinct(IF coords[i] = coords[i + 1]
                                 THEN add_node(g, coords[i])
                                 ELSE add_edge(g, coords[i], coords[i + 1],
                                               distance(coords[i], coords[i + 1])),
                               coords, i + 1)

RECURSIVE add_polyline(_, _, _)
\* for i in range(len(coords) - 1): G.add_edge(coords[i], coords[i + 1], weight=...)
add_polyline(g, coords, i) ==
  IF i > Len(coords) - 1
    THEN g
    ELSE add_polyline(add_edge(g, coords[i], coords[i + 1],
                               distance(coords[i], coords[i + 1])),
                      coords, i + 1)

RECURSIVE add_features(_, _, _)
\* for feature in gdf.geometry: ...
add_features(g, features, k) ==
  IF k > Len(features)
    THEN g
    ELSE add_features(add_polyline(g, features[k], 1), features, k + 1)

geojson_to_graph(features) == add_features(EmptyGraph, features, 1)

has_edge(g, u, v) == u \in Range(g.nodes) /\ HasNeighbor(g.adj[u], v)

edge_weight(g, u, v) ==
  LET row == g.adj[u] IN row[CHOOSE i \in DOMAIN row : row[i].to = v].weight

-----------------------------------------------------------------------------
(* snap_to_nearest_node: min(graph.nodes, key=...) scans the nodes in      *)
(* enumeration order and keeps the first one whose key is the smallest     *)

RECURSIVE min_scan_last(_, _, _, _)
\* mutant: the kept element changes on an equal key too
min_scan_last(nodes, coord, i, best) ==
  IF i > Len(nodes)
    THEN best
    ELSE min_scan_last(nodes, coord, i + 1,
                       IF distance(nodes[i], coord) <= distance(best, coord)
                         THEN nodes[i] ELSE best)

RECURSIVE min_scan(_, _, _, _)
\* Python's min: the kept element changes only on a strictly smaller key
min_scan(nodes, coord, i, best) ==
  IF i > Len(nodes)
    THEN best
    ELSE min_scan(nodes, coord, i + 1,
                  IF distance(nodes[i], coord) < distance(best, coord)
                    THEN nodes[i] ELSE best)

snap_to_nearest_node(graph, coord) == min_scan(graph.nodes, coord, 2, graph.nodes[1])

-----------------------------------------------------------------------------
(* Dictionaries: functions whose domain grows *)

Put(f, k, val) == [x \in (DOMAIN f) \cup {k} |-> IF x = k THEN val ELSE f[x]]

\* None as the parent of the start node in astar_path
NoParent == << >>

-----------------------------------------------------------------------------
(* nx.shortest_path(G, source, target, weight="weight"): Dijkstra from the *)
(* source with a heap of (distance, counter, node), as nx.dijkstra_path    *)
(* runs it; the path of a node is fixed when the node is pushed with a     *)
(* smaller distance; NetworkXNoPath when the target is never reached       *)

HeapMin(heap) ==
  CHOOSE e \in heap : \A o \in heap : e.key < o.key \/ (e.key = o.key /\ e.c <= o.c)

RECURSIVE dijkstra_relax(_, _, _, _, _)
dijkstra_relax(g, st, v, row, i) ==
  IF i > Len(row)
    THEN st
    ELSE
      LET u       == row[i].to
          vu_dist == st.dist[v] + row[i].weight
          st2     ==
            IF u \in DOMAIN st.dist
              THEN st
              ELSE IF u \notin DOMAIN st.seen \/ vu_dist < st.seen[u]
                THEN [st EXCEPT !.seen   = Put(@, u, vu_dist),
                                !.fringe = @ \cup {[key |-> vu_dist, c |-> st.c, v |-> u]},
                                !.c      = @ + 1,
                                !.paths  = Put(@, u, Append(st.paths[v], u))]
                ELSE st
      IN dijkstra_relax(g, st2, v, row, i + 1)

RECURSIVE dijkstra_loop(_, _, _)
dijkstra_loop(g, st, target) ==
  IF st.fringe = {}
    THEN st
    ELSE
      LET e   == HeapMin(st.fringe)
          st1 == [st EXCEPT !.fringe = @ \ {e}]
      IN IF e.v \in DOMAIN st1.dist
           THEN dijkstra_loop(g, st1, target)
           ELSE
             LET st2 == [st1 EXCEPT !.dist = Put(@, e.v, e.key)]
             IN IF e.v = target
                  THEN st2
                  ELSE dijkstra_loop(g, dijkstra_relax(g, st2, e.v, g.adj[e.v], 1), target)

\* the value returned, or the exception raised
shortest_path(g, source, target) ==
  LET st0 == [dist   |-> << >>,
              seen   |-> Put(<< >>, source, 0),
              paths  |-> Put(<< >>, source, <<source>>),
              fringe |-> {[key |-> 0, c |-> 0, v |-> source]},
              c      |-> 1]
      st  == dijkstra_loop(g, st0, target)
  IN IF target \in DOMAIN st.dist
       THEN [raised |-> "no", kind |-> "list", val |-> st.paths[target]]
       ELSE [raised |-> "NetworkXNoPath"]

-----------------------------------------------------------------------------
(* heuristic(u, v) of find_shortest_path_astar *)

heuristic(u, v) == distance(<<u[1], u[2]>>, <<v[1], v[2]>>)

(* nx.astar_path(G, source, target, heuristic, weight="weight"): a heap of *)
(* (cost + h, counter, node, cost, parent)                                 *)

RECURSIVE astar_build(_, _, _)
\* path = [curnode]; node = parent; while node is not None: ...; path.reverse()
astar_build(explored, node, path) ==
  IF node = NoParent
    THEN path
    ELSE astar_build(explored, explored[node], <<node>> \o path)

RECURSIVE astar_relax(_, _, _, _, _, _)
astar_relax(st, curnode, dist, row, i, target) ==
  IF i > Len(row)
    THEN st
    ELSE
      LET neighbor == row[i].to
          ncost    == dist + row[i].weight
          known    == neighbor \in DOMAIN st.enqueued
          skip     == known /\ st.enqueued[neighbor].cost <= ncost
          h        == IF known THEN st.enqueued[neighbor].h ELSE heuristic(neighbor, target)
          st2      ==
            IF skip
              THEN st
              ELSE [st EXCEPT !.enqueued = Put(@, neighbor, [cost |-> ncost, h |-> h]),
                              !.queue    = @ \cup {[key |-> ncost + h, c |-> st.c,
                                                    node |-> neighbor, dist |-> ncost,
                                                    parent |-> curnode]},
                              !.c        = @ + 1]
      IN astar_relax(st2, curnode, dist, row, i + 1, target)

RECURSIVE astar_loop(_, _, _)
astar_loop(g, st, target) ==
  IF st.queue = {}
    THEN [raised |-> "NetworkXNoPath"]
    ELSE
      LET e   == HeapMin(st.queue)
          st1 == [st EXCEPT !.queue = @ \ {e}]
      IN IF e.node = target
           THEN [raised |-> "no", kind |-> "list",
                 val |-> astar_build(st1.explored, e.parent, <<e.node>>)]
           ELSE IF /\ e.node \in DOMAIN st1.explored
                   /\ \/ st1.explored[e.node] = NoParent
                      \/ st1.enqueued[e.node].cost < e.dist
             THEN astar_loop(g, st1, target)
             ELSE astar_loop(g,
                             astar_relax([st1 EXCEPT !.explored = Put(@, e.node, e.parent)],
                                         e.node, e.dist, g.adj[e.node], 1, target),
                             target)

astar_path(g, source, target) ==
  astar_loop(g,
             [queue    |-> {[key |-> 0, c |-> 0, node |-> source, dist |-> 0,
                             parent |-> NoParent]},
              enqueued |-> << >>,
              explored |-> << >>,
              c        |-> 1],
             target)

-----------------------------------------------------------------------------
(* nx.single_source_bellman_ford_path(G, source): relaxation from a queue  *)
(* of nodes (deque q, set in_q), predecessor lists, and then one path per  *)
(* reached node, built from the first predecessors                         *)

RECURSIVE bellman_relax(_, _, _, _, _)
bellman_relax(st, u, row, i, n) ==
  IF i > Len(row) \/ st.unbounded
    THEN st
    ELSE
      LET v      == row[i].to
          dist_v == st.dist[u] + row[i].weight
          st2    ==
            IF v \notin DOMAIN st.dist \/ dist_v < st.dist[v]
              THEN
                LET fresh   == v \notin st.in_q
                    count_v == (IF v \in DOMAIN st.count THEN st.count[v] ELSE 0) + 1
                IN IF fresh /\ count_v = n
                     THEN [st EXCEPT !.unbounded = TRUE]
                     ELSE [st EXCEPT !.q     = IF fresh THEN Append(@, v) ELSE @,
                                     !.in_q  = @ \cup {v},
                                     !.count = IF fresh THEN Put(@, v, count_v) ELSE @,
                                     !.dist  = Put(@, v, dist_v),
                                     !.keys  = IF v \in DOMAIN st.pred THEN @ ELSE Append(@, v),
                                     !.pred  = Put(@, v, <<u>>)]
              ELSE IF dist_v = st.dist[v]
                THEN [st EXCEPT !.pred = Put(@, v, Append(st.pred[v], u))]
                ELSE st
      IN bellman_relax(st2, u, row, i + 1, n)

RECURSIVE bellman_loop(_, _)
bellman_loop(g, st) ==
  IF st.q = << >> \/ st.unbounded
    THEN st
    ELSE
      LET u   == Head(st.q)
          st1 == [st EXCEPT !.q = Tail(@), !.in_q = @ \ {u}]
      IN IF \A k \in DOMAIN st1.pred[u] : st1.pred[u][k] \notin st1.in_q
           THEN bellman_loop(g, bellman_relax(st1, u, g.adj[u], 1, Len(g.nodes)))
           ELSE bellman_loop(g, st1)

RECURSIVE bellman_build(_, _, _, _, _)
\* the first path of _build_paths_from_predecessors: first predecessors
bellman_build(pred, source, node, path, fuel) ==
  IF node = source \/ fuel = 0
    THEN path
    ELSE bellman_build(pred, source, pred[node][1], <<pred[node][1]>> \o path, fuel - 1)

single_source_bellman_ford_path(g, source) ==
  LET st0 == [q |-> <<source>>, in_q |-> {source}, count |-> << >>,
              dist |-> Put(<< >>, source, 0), pred |-> Put(<< >>, source, << >>),
              keys |-> <<source>>, unbounded |-> FALSE]
      st  == bellman_loop(g, st0)
  IN IF st.unbounded
       THEN [raised |-> "NetworkXUnbounded"]
       ELSE [raised |-> "no", kind |-> "dict", keys |-> st.keys,
             val |-> [dst \in DOMAIN st.pred |->
                        bellman_build(st.pred, source, dst, <<dst>>, Len(g.nodes))]]

-----------------------------------------------------------------------------
(* The port registry.  The coordinates stand for the fifteen literal ones; *)
(* the key of Istanbul ends in a blank, as in the source.                  *)

ports == [n \in {"Mumbai", "Istanbul "} |->
            IF n = "Mumbai" THEN <<3, 0>> ELSE <<-3, 0>>]

\* request.form.get returns None for a field the form does not carry
NoField == "<None>"

\* the names a form can carry
FormValues == (DOMAIN ports) \cup {"Istanbul", NoField}

-----------------------------------------------------------------------------
(* The three engines: the first component each returns, or the exception  *)
(* it raises.  The elapsed time and the resident memory of a call are the *)
(* values index() is given with it (Measure).                              *)

\* ports[source], ports[destination]: KeyError on a name that is no key
KnownPorts(source, destination) == source \in DOMAIN ports /\ destination \in DOMAIN ports

\* the graph with every edge weighing 1: the search without weight="weight"
UnitWeights(g) ==
  [nodes |-> g.nodes,
   adj   |-> [u \in DOMAIN g.adj |->
                [i \in DOMAIN g.adj[u] |-> [to |-> g.adj[u][i].to, weight |-> 1]]]]

\* mutant: nx.shortest_path called without the weight
find_shortest_path_dijkstra_hops(source, destination) ==
  IF ~KnownPorts(source, destination)
    THEN [raised |-> "KeyError"]
    ELSE
      LET source_nearest      == snap_to_nearest_node(G, ports[source])
          destination_nearest == snap_to_nearest_node(G, ports[destination])
      IN shortest_path(UnitWeights(G), source_nearest, destination_nearest)

find_shortest_path_dijkstra(source, destination) ==
  IF ~KnownPorts(source, destination)
    THEN [raised |-> "KeyError"]
    ELSE
      LET source_nearest      == snap_to_nearest_node(G, ports[source])
          destination_nearest == snap_to_nearest_node(G, ports[destination])
      IN shortest_path(G, source_nearest, destination_nearest)

find_shortest_path_astar(source, destination) ==
  IF ~KnownPorts(source, destination)
    THEN [raised |-> "KeyError"]
    ELSE
      LET source_nearest      == snap_to_nearest_node(G, ports[source])
          destination_nearest == snap_to_nearest_node(G, ports[destination])
      IN astar_path(G, source_nearest, destination_nearest)

\* destination_nearest is computed and not used
find_shortest_path_bellmanford(source, destination) ==
  IF ~KnownPorts(source, destination)
    THEN [raised |-> "KeyError"]
    ELSE
      LET source_nearest      == snap_to_nearest_node(G, ports[source])
          destination_nearest == snap_to_nearest_node(G, ports[destination])
      IN single_source_bellman_ford_path(G, source_nearest)

-----------------------------------------------------------------------------
(* plot_route: the map centre, the two markers and the polyline; every     *)
(* element x of path is drawn at (x[1], x[0])                              *)

\* iterating a list gives its elements, iterating a dict its keys
Elements(path) == IF path.kind = "list" THEN path.val ELSE path.keys

plot_route(source, destination, path) ==
  [kind         |-> "map",
   location     |-> ports[source],
   markers      |-> <<[at |-> <<ports[source][2], ports[source][1]>>, popup |-> source],
                      [at |-> <<ports[destination][2], ports[destination][1]>>,
                       popup |-> destination]>>,
   route_coords |-> [i \in DOMAIN Elements(path) |->
                       <<Elements(path)[i][2], Elements(path)[i][1]>>]]

-----------------------------------------------------------------------------
(* index(): lines 171-178, the verdict *)

BestDijkstra == "Best algorithm based on time complexity: Dijkstra's Algorithm."
BestAstar == "Best algorithm based on time complexity: A* Algorithm."
BestBellmanFord == "Best algorithm based on time complexity: Bellman-Ford Algorithm."

best_algorithm_of(dijkstra_time, astar_time, bellmanford_time) ==
  IF dijkstra_time < astar_time /\ dijkstra_time < bellmanford_time
    THEN BestDijkstra
    ELSE IF astar_time < dijkstra_time /\ astar_time < bellmanford_time
      THEN BestAstar
      ELSE BestBellmanFord

\* mutant: or in the place of and
valid_ports_either(source, destination) ==
  source \in DOMAIN ports \/ destination \in DOMAIN ports

\* line 150: if source in ports and destination in ports
valid_ports(source, destination) == source \in DOMAIN ports /\ destination \in DOMAIN ports

\* mutant: the path of the algorithm the verdict names
route_to_plot_fastest(dijkstra, astar, bellmanford, verdict) ==
  IF verdict = BestDijkstra
    THEN dijkstra
    ELSE IF verdict = BestAstar THEN astar ELSE bellmanford

\* line 169: the path given to plot_route
route_to_plot(dijkstra, astar, bellmanford, verdict) == dijkstra

-----------------------------------------------------------------------------
(* The process *)

\* a template variable that is None
PyNone == [kind |-> "None"]

InvalidPorts == [kind |-> "html", text |-> "<p>Invalid port names selected. Please try again.</p>"]

NoData == "<p>No performance data available. Please calculate performance metrics on the main page first.</p>"

\* the global performance_metrics is bound by the first assignment in index()
Unbound == [bound |-> FALSE, dict |-> << >>]

MetricKeys == {"dijkstra_time", "astar_time", "bellmanford_time",
               "dijkstra_memory", "astar_memory", "bellmanford_memory"}

Times == 1..MaxTime

NoRequest == [handler |-> "none"]

NoResponse == [handler |-> "none"]

NoProbe == [op |-> "none"]

\* render_template("index.html", ...) after `calls` engine calls
IndexPage(calls, map_html, best_algorithm, time_taken, memory_used, locals) ==
  [handler |-> "index", fault |-> "none", calls |-> calls,
   ports |-> DOMAIN ports, map_html |-> map_html, best_algorithm |-> best_algorithm,
   time_taken |-> time_taken, memory_used |-> memory_used, locals |-> locals]

\* an exception that leaves the handler
Fault(handler, calls, exception) == [handler |-> handler, fault |-> exception, calls |-> calls]

-----------------------------------------------------------------------------
(* Module import: lines 20 and 31 *)

Load ==
  /\ pc = "import"
  /\ G' = geojson_to_graph(gdf)
  /\ pc' = "serving"
  /\ UNCHANGED <<gdf, performance_metrics, request, response, probe>>

-----------------------------------------------------------------------------
(* index(), GET *)

IndexGet ==
  /\ pc = "serving"
  /\ request' = [handler |-> "index", method |-> "GET"]
  /\ response' = IndexPage(<< >>, PyNone, "None", PyNone, PyNone, PyNone)
  /\ UNCHANGED <<gdf, G, pc, performance_metrics, probe>>

(* index(), POST: the whole handler, lines 140-187.  Measure is lines     *)
(* 151-182 for the outcomes of the three searches.                         *)

Measure(source, destination, dijkstra, astar, bellmanford) ==
  \E dijkstra_time, astar_time, bellmanford_time \in Times :
  \E dijkstra_memory, astar_memory, bellmanford_memory \in RssSamples :
    LET verdict == best_algorithm_of(dijkstra_time, astar_time, bellmanford_time)
        chosen  == route_to_plot(dijkstra, astar, bellmanford, verdict)
    IN /\ performance_metrics' =
            [bound |-> TRUE,
             dict  |-> [dijkstra_time      |-> dijkstra_time,
                        astar_time         |-> astar_time,
                        bellmanford_time   |-> bellmanford_time,
                        dijkstra_memory    |-> dijkstra_memory,
                        astar_memory       |-> astar_memory,
                        bellmanford_memory |-> bellmanford_memory]]
       /\ response' =
            IndexPage(<<"dijkstra", "astar", "bellmanford">>,
                      plot_route(source, destination, chosen),
                      verdict,
                      [kind |-> "text", Dijkstra |-> dijkstra_time,
                       Astar |-> astar_time, BellmanFord |-> bellmanford_time],
                      [kind |-> "text", Dijkstra |-> dijkstra_memory,
                       Astar |-> astar_memory, BellmanFord |-> bellmanford_memory],
                      [kind |-> "locals", dijkstra_path |-> dijkstra,
                       astar_path |-> astar, bellmanford_path |-> bellmanford,
                       plotted |-> chosen])

RunEngines(source, destination, dijkstra, astar, bellmanford) ==
  IF dijkstra.raised # "no"
    THEN /\ response' = Fault("index", <<"dijkstra">>, dijkstra.raised)
         /\ UNCHANGED performance_metrics
    ELSE IF astar.raised # "no"
      THEN /\ response' = Fault("index", <<"dijkstra", "astar">>, astar.raised)
           /\ UNCHANGED performance_metrics
      ELSE IF bellmanford.raised # "no"
        THEN /\ response' = Fault("index", <<"dijkstra", "astar", "bellmanford">>,
                                  bellmanford.raised)
             /\ UNCHANGED performance_metrics
        ELSE Measure(source, destination, dijkstra, astar, bellmanford)

IndexPost(source, destination) ==
  /\ pc = "serving"
  /\ request' = [handler |-> "index", method |-> "POST",
                 source |-> source, destination |-> destination]
  /\ IF ~valid_ports(source, destination)
       THEN /\ response' = IndexPage(<< >>, InvalidPorts, "None", PyNone, PyNone, PyNone)
            /\ UNCHANGED performance_metrics
       ELSE RunEngines(source, destination,
                       find_shortest_path_dijkstra(source, destination),
                       find_shortest_path_astar(source, destination),
                       find_shortest_path_bellmanford(source, destination))
  /\ UNCHANGED <<gdf, G, pc, probe>>

-----------------------------------------------------------------------------
(* analysis(): lines 191-209; generate_comparative_graph draws the values  *)
(* it is given as two bar charts                                           *)

generate_comparative_graph(dijkstra_time, astar_time, bellmanford_time, dijkstra_memory, astar_memory, bellmanford_memory) ==
  [time_graph   |-> [x |-> <<"Dijkstra", "A*", "Bellman-Ford">>,
                     y |-> <<dijkstra_time, astar_time, bellmanford_time>>],
   memory_graph |-> [x |-> <<"Dijkstra", "A*", "Bellman-Ford">>,
                     y |-> <<dijkstra_memory, astar_memory, bellmanford_memory>>]]

Analysis ==
  /\ pc = "serving"
  /\ request' = [handler |-> "analysis", method |-> "GET"]
  /\ response' =
       IF ~performance_metrics.bound
         THEN Fault("analysis", << >>, "NameError")
         ELSE IF DOMAIN performance_metrics.dict = {}
           THEN [handler |-> "analysis", fault |-> "none", body |-> NoData]
           ELSE
             LET m == performance_metrics.dict
             IN [handler |-> "analysis", fault |-> "none", body |-> "analysis.html",
                 graphs |-> generate_comparative_graph(
                              m.dijkstra_time, m.astar_time, m.bellmanford_time,
                              m.dijkstra_memory, m.astar_memory, m.bellmanford_memory)]
  /\ UNCHANGED <<gdf, G, pc, performance_metrics, probe>>

-----------------------------------------------------------------------------
(* The functions applied on their own *)

Snap(coord) ==
  /\ pc = "serving"
  /\ probe = NoProbe
  /\ probe' = [op |-> "snap", coord |-> coord, result |-> snap_to_nearest_node(G, coord)]
  /\ UNCHANGED <<gdf, G, pc, performance_metrics, request, response>>

Routed(source, destination, dijkstra, astar, bellmanford) ==
  probe' = [op |-> "route", source |-> source, destination |-> destination,
            dijkstra |-> dijkstra, astar |-> astar, bellmanford |-> bellmanford]

Route(source, destination) ==
  /\ pc = "serving"
  /\ probe = NoProbe
  /\ Routed(source, destination,
            find_shortest_path_dijkstra(source, destination),
            find_shortest_path_astar(source, destination),
            find_shortest_path_bellmanford(source, destination))
  /\ UNCHANGED <<gdf, G, pc, performance_metrics, request, response>>

-----------------------------------------------------------------------------
(* The networks *)

Polylines == UNION {[1..n -> Coords] : n \in 2..MaxLen}

Segments == [1..2 -> Coords]

\* one polyline, or one polyline and a two-point line
Gdfs == {<<p>> : p \in Polylines} \cup {<<p, q>> : p \in Polylines, q \in Segments}

\* two routes between the two ports; and a network of two components, one
\* with a loop, on which the port Mumbai is no vertex
SampleNetworks ==
  { <<<<<<3, 0>>, <<0, 4>>, <<-3, 0>>>>, <<<<3, 0>>, <<0, 0>>, <<-3, 0>>>>>>,
    <<<<<<0, 0>>, <<0, 0>>>>, <<<<-3, 0>>, <<0, 4>>>>>> }

InitWith(networks) ==
  /\ gdf \in networks
  /\ G = EmptyGraph
  /\ pc = "import"
  /\ performance_metrics = Unbound
  /\ request = NoRequest
  /\ response = NoResponse
  /\ probe = NoProbe

Init == InitWith(SampleNetworks)

Next ==
  \/ Load
  \/ IndexGet
  \/ \E source, destination \in FormValues : IndexPost(source, destination)
  \/ Analysis

Spec == Init /\ [][Next]_vars

InitEngine == InitWith(Gdfs)

NextEngine ==
  \/ Load
  \/ \E coord \in QueryCoords : Snap(coord)
  \/ \E source, destination \in DOMAIN ports : Route(source, destination)

SpecEngine == InitEngine /\ [][NextEngine]_vars

-----------------------------------------------------------------------------
(* Vocabulary of the properties *)

Last(path) == path[Len(path)]

\* consecutive elements of the sequence are joined by an edge of g
IsPathOf(g, path) ==
  /\ Len(path) >= 1
  /\ \A i \in DOMAIN path : path[i] \in Range(g.nodes)
  /\ \A i \in 1..(Len(path) - 1) : has_edge(g, path[i], path[i + 1])

RECURSIVE PathCost(_, _, _)
\* the sum of the edge weights along the path, from position i on
PathCost(g, path, i) ==
  IF i >= Len(path)
    THEN 0
    ELSE edge_weight(g, path[i], path[i + 1]) + PathCost(g, path, i + 1)

\* the least element of a set of costs, as a set; empty for the empty set
Least(S) == IF S = {} THEN {} ELSE {CHOOSE x \in S : \A y \in S : x <= y}

RECURSIVE MinWalk(_, _, _, _)
\* the least cost of a walk of at most k edges from s to v, by definition;
\* the empty set when there is no such walk
MinWalk(g, s, v, k) ==
  Least((IF v = s THEN {0} ELSE {})
        \cup (IF k = 0
                THEN {}
                ELSE UNION {{c + g.adj[v][i].weight :
                               c \in MinWalk(g, s, g.adj[v][i].to, k - 1)} :
                            i \in DOMAIN g.adj[v]}))

Connected(g, s, t) == MinWalk(g, s, t, Len(g.nodes) - 1) # {}

MinCost(g, s, t) == CHOOSE c \in MinWalk(g, s, t, Len(g.nodes) - 1) : TRUE

\* the snapped end points of the probed route
ProbeSource == snap_to_nearest_node(G, ports[probe.source])

ProbeTarget == snap_to_nearest_node(G, ports[probe.destination])

\* a POST to index whose two names are keys of the registry
ValidQuery ==
  /\ request.handler = "index"
  /\ request.method = "POST"
  /\ request.source \in DOMAIN ports
  /\ request.destination \in DOMAIN ports

\* a POST to index with a name that is no key of the registry
InvalidQuery ==
  /\ request.handler = "index"
  /\ request.method = "POST"
  /\ (request.source \notin DOMAIN ports \/ request.destination \notin DOMAIN ports)

\* a valid query that returned its page
CompletedQuery == ValidQuery /\ response.fault = "none"

SamePath(p, q) == p.kind = q.kind /\ p.val = q.val

Min3(a, b, c) == IF a <= b /\ a <= c THEN a ELSE IF b <= c THEN b ELSE c

-----------------------------------------------------------------------------
(* C1: the verdict of a valid query names an algorithm whose elapsed time  *)
(* is the least of the three, and on a tie the first of Dijkstra, A*,      *)
(* Bellman-Ford.  On a tie for the least time index() names Bellman-Ford.  *)

FastestOf(t) ==
  IF t.Dijkstra = Min3(t.Dijkstra, t.Astar, t.BellmanFord)
    THEN BestDijkstra
    ELSE IF t.Astar = Min3(t.Dijkstra, t.Astar, t.BellmanFord)
      THEN BestAstar
      ELSE BestBellmanFord

C1_VerdictNamesFastest ==
  CompletedQuery => response.best_algorithm = FastestOf(response.time_taken)

-----------------------------------------------------------------------------
(* C2: for two registry names whose snapped vertices are connected, every  *)
(* engine returns one vertex sequence from the snapped source to the       *)
(* snapped destination, each consecutive pair joined by an edge of G.      *)
(* Bellman-Ford returns a dictionary of paths instead.                     *)

ReturnsRoute(r) ==
  /\ r.raised = "no"
  /\ r.kind = "list"
  /\ IsPathOf(G, r.val)
  /\ Head(r.val) = ProbeSource
  /\ Last(r.val) = ProbeTarget

C2_EnginesReturnRoute ==
  (probe.op = "route" /\ Connected(G, ProbeSource, ProbeTarget)) =>
    /\ ReturnsRoute(probe.dijkstra)
    /\ ReturnsRoute(probe.astar)
    /\ ReturnsRoute(probe.bellmanford)

-----------------------------------------------------------------------------
(* C3: for a connected pair, the paths of Dijkstra, of A* and the path to  *)
(* the destination in Bellman-Ford's result have the same cost, the least  *)
(* cost of a route between the two vertices.                               *)

CostIs(path, least) == IsPathOf(G, path) /\ PathCost(G, path, 1) = least

C3_EqualLeastCost ==
  (probe.op = "route" /\ Connected(G, ProbeSource, ProbeTarget)) =>
    /\ probe.dijkstra.raised = "no"
    /\ probe.astar.raised = "no"
    /\ probe.bellmanford.raised = "no"
    /\ CostIs(probe.dijkstra.val, MinCost(G, ProbeSource, ProbeTarget))
    /\ CostIs(probe.astar.val, MinCost(G, ProbeSource, ProbeTarget))
    /\ ProbeTarget \in DOMAIN probe.bellmanford.val
    /\ CostIs(probe.bellmanford.val[ProbeTarget], MinCost(G, ProbeSource, ProbeTarget))

\* a probed pair with a second, costlier route through another neighbour
C3_Witness ==
  /\ probe.op = "route"
  /\ ProbeSource # ProbeTarget
  /\ Connected(G, ProbeSource, ProbeTarget)
  /\ \E i \in DOMAIN G.adj[ProbeTarget] :
       /\ G.adj[ProbeTarget][i].to \notin {ProbeSource, ProbeTarget}
       /\ Connected(G, ProbeSource, G.adj[ProbeTarget][i].to)
       /\ MinCost(G, ProbeSource, G.adj[ProbeTarget][i].to) + G.adj[ProbeTarget][i].weight
            > MinCost(G, ProbeSource, ProbeTarget)
  /\ PathCost(G, probe.dijkstra.val, 1) = PathCost(G, probe.astar.val, 1)
  /\ Len(probe.dijkstra.val) >= 3

-----------------------------------------------------------------------------
(* C4: a POST to index with a name that is no key of the registry ends in  *)
(* the invalid-port page: no engine is called, nothing is raised, and the  *)
(* page carries no verdict, time or memory.                                *)

C4_InvalidNamesRejected ==
  InvalidQuery =>
    /\ response.fault = "none"
    /\ response.calls = << >>
    /\ response.map_html = InvalidPorts
    /\ response.best_algorithm = "None"
    /\ response.time_taken = PyNone
    /\ response.memory_used = PyNone

\* the key without its trailing blank, and a missing field
C4_Witness ==
  /\ InvalidQuery
  /\ request.source = "Istanbul"
  /\ request.destination = NoField
  /\ response.fault = "none"
  /\ response.map_html = InvalidPorts

-----------------------------------------------------------------------------
(* C5: when the snapped destination cannot be reached from the snapped     *)
(* source, each of the three engines reports NoPath.  Bellman-Ford returns *)
(* its dictionary all the same.                                            *)

C5_AllReportNoPath ==
  (probe.op = "route" /\ ~Connected(G, ProbeSource, ProbeTarget)) =>
    /\ probe.dijkstra.raised = "NetworkXNoPath"
    /\ probe.astar.raised = "NetworkXNoPath"
    /\ probe.bellmanford.raised = "NetworkXNoPath"

-----------------------------------------------------------------------------
(* C6: in a valid query all three engines are called, in the order         *)
(* Dijkstra, A*, Bellman-Ford, and the query ends with a page, not with an *)
(* exception.  The first NoPath leaves index() at once.                    *)

C6_AllEnginesRun ==
  ValidQuery =>
    /\ response.calls = <<"dijkstra", "astar", "bellmanford">>
    /\ response.fault = "none"

-----------------------------------------------------------------------------
(* C7: snap_to_nearest_node returns a vertex of the graph at the least     *)
(* distance from the coordinate, the first such vertex of the enumeration, *)
(* and snapping the result again returns it.                               *)

C7_SnapNearestFirst ==
  probe.op = "snap" =>
    /\ probe.result \in Range(G.nodes)
    /\ \A v \in Range(G.nodes) :
         distance(probe.result, probe.coord) <= distance(v, probe.coord)
    /\ \A j \in 1..(IndexOf(G.nodes, probe.result) - 1) :
         distance(G.nodes[j], probe.coord) > distance(probe.result, probe.coord)
    /\ snap_to_nearest_node(G, probe.result) = probe.result

\* two vertices at the least distance, and a coordinate that is no vertex
C7_Witness ==
  /\ probe.op = "snap"
  /\ probe.coord \notin Range(G.nodes)
  /\ \E v \in Range(G.nodes) :
       /\ v # probe.result
       /\ distance(v, probe.coord) = distance(probe.result, probe.coord)

-----------------------------------------------------------------------------
(* C8: the path given to plot_route is the path of the algorithm the       *)
(* verdict names.  As amended: it is the path Dijkstra returned, whatever  *)
(* the verdict.                                                            *)

PathOfVerdict ==
  IF response.best_algorithm = BestDijkstra
    THEN response.locals.dijkstra_path
    ELSE IF response.best_algorithm = BestAstar
      THEN response.locals.astar_path
      ELSE response.locals.bellmanford_path

-----------------------------------------------------------------------------
(* C9: the graph has no self-loop, and every consecutive coordinate pair   *)
(* of every polyline is joined by an edge weighing their distance.  As     *)
(* amended: the edges of the graph are the consecutive pairs, each         *)
(* weighing its distance, so a vertex has a self-loop exactly when a       *)
(* polyline holds it twice in a row.                                       *)

ConsecutivePairs ==
  UNION {{<<gdf[k][i], gdf[k][i + 1]>> : i \in 1..(Len(gdf[k]) - 1)} : k \in DOMAIN gdf}

EveryPairJoined ==
  \A e \in ConsecutivePairs :
    /\ has_edge(G, e[1], e[2])
    /\ has_edge(G, e[2], e[1])
    /\ edge_weight(G, e[1], e[2]) = distance(e[1], e[2])
    /\ edge_weight(G, e[2], e[1]) = distance(e[1], e[2])
    /\ edge_weight(G, e[1], e[2]) >= 0

C9_NoSelfLoop ==
  pc = "serving" =>
    /\ \A v \in Range(G.nodes) : ~has_edge(G, v, v)
    /\ EveryPairJoined

C9_EdgesAreThePairs ==
  pc = "serving" =>
    /\ EveryPairJoined
    /\ \A u \in Range(G.nodes) : \A i \in DOMAIN G.adj[u] :
         <<u, G.adj[u][i].to>> \in ConsecutivePairs
           \/ <<G.adj[u][i].to, u>> \in ConsecutivePairs
    /\ \A v \in Range(G.nodes) : has_edge(G, v, v) <=> <<v, v>> \in ConsecutivePairs

\* a polyline with a coordinate twice in a row, and the loop it leaves
C9_Witness ==
  /\ pc = "serving"
  /\ \E v \in Range(G.nodes) :
       /\ <<v, v>> \in ConsecutivePairs
       /\ has_edge(G, v, v)
       /\ edge_weight(G, v, v) = 0
  /\ Len(G.nodes) >= 2

-----------------------------------------------------------------------------
(* C10: a request to analysis never faults; with no valid query completed  *)
(* since startup it answers that no performance data is available, and     *)
(* otherwise it draws the six values of the last completed valid query.    *)
(* Before the first completed query the global is not bound.               *)

C10_AnalysisAnswers ==
  request.handler = "analysis" =>
    /\ response.fault = "none"
    /\ IF ~performance_metrics.bound
         THEN response.body = NoData
         ELSE /\ response.body = "analysis.html"
              /\ response.graphs.time_graph.y =
                   <<performance_metrics.dict.dijkstra_time,
                     performance_metrics.dict.astar_time,
                     performance_metrics.dict.bellmanford_time>>
              /\ response.graphs.memory_graph.y =
                   <<performance_metrics.dict.dijkstra_memory,
                     performance_metrics.dict.astar_memory,
                     performance_metrics.dict.bellmanford_memory>>

====
